---- MODULE Spec2Model ----
(***************************************************************************)
(* Model of the tudu-server authentication core: the User collection, the  *)
(* JWT issuer/verifier, UserController (login, lock, unlock,               *)
(* forgotPassword, resetPassword, update), GlobalController.create, the    *)
(* adminKey and verifyToken middlewares and the user routes.               *)
(*                                                                         *)
(* Time is counted in seconds (the resolution of the iat/exp claims of a   *)
(* JWT).  Every `await` on the store or on the mail transport is a point   *)
(* where other requests may run, so a handler that awaits more than one    *)
(* store operation is split into one action per operation.                 *)
(***************************************************************************)
EXTENDS Integers, Sequences, FiniteSets, TLC

(***************************************************************************)
(* Bounds of the model.                                                    *)
(***************************************************************************)
MaxUsers  == 2      \* number of ObjectIds the store may hand out
MaxTicks  == 2      \* number of clock advances
MaxTokens == 2      \* number of distinct tokens the server signs
MaxReqs   == 2      \* number of requests that may be in flight together
MaxSalt   == 2      \* number of distinct salts bcrypt.genSalt draws
MaxOver   == 2      \* number of requests counted beyond the limiter's max
MaxTasks  == 2      \* number of ObjectIds the Task collection may hand out

(***************************************************************************)
(* Program constants.                                                      *)
(***************************************************************************)
ResetTtl       == 3600   \* expiresIn: "1h", Date.now() + 3600000
SessionTtl     == 7200   \* expiresIn: "2h"
MinPasswordLen == 8      \* {8,} of the strength regex
MaxAttempts    == 5      \* max: 5
WindowSecs     == 600    \* windowMs: 10 * 60 * 1000

UserIds   == 1..MaxUsers
Slots     == 1..MaxReqs
Salts     == 1..MaxSalt
Emails    == {"a@tudu.co", "b@tudu.co"}
TimeSteps == {1, ResetTtl - 1}

(***************************************************************************)
(* Passwords are sequences of characters, tested by the strength regex     *)
(*   /^(?=.*[a-z])(?=.*[A-Z])(?=.*\d)(?=.*[@$!%*?&#])                      *)
(*     [A-Za-z\d@$!%*?&#]{8,}$/                                            *)
(***************************************************************************)
LowerChars  == {"a","b","c","d","e","f","g","h","i","j","k","l","m",
                "n","o","p","q","r","s","t","u","v","w","x","y","z"}
UpperChars  == {"A","B","C","D","E","F","G","H","I","J","K","L","M",
                "N","O","P","Q","R","S","T","U","V","W","X","Y","Z"}
DigitChars  == {"0","1","2","3","4","5","6","7","8","9"}
SymbolChars == {"@","$","!","%","*","?","&","#"}

HasChar(p, class) == \E i \in 1..Len(p) : p[i] \in class

\* the regex without its {8,} quantifier
StrengthRegexTestAnyLength(p) ==
    /\ HasChar(p, LowerChars)
    /\ HasChar(p, UpperChars)
    /\ HasChar(p, DigitChars)
    /\ HasChar(p, SymbolChars)
    /\ \A i \in 1..Len(p) :
           p[i] \in LowerChars \cup UpperChars \cup DigitChars \cup SymbolChars

StrengthRegexTest(p) ==
    /\ HasChar(p, LowerChars)
    /\ HasChar(p, UpperChars)
    /\ HasChar(p, DigitChars)
    /\ HasChar(p, SymbolChars)
    /\ \A i \in 1..Len(p) :
           p[i] \in LowerChars \cup UpperChars \cup DigitChars \cup SymbolChars
    /\ Len(p) >= MinPasswordLen

isValidPassword(p) == StrengthRegexTest(p)

PwdA       == <<"A","b","c","d","e","f","1","!">>
PwdB       == <<"Z","y","x","w","v","u","2","#">>
PwdShort   == <<"A","b","c","d","e","1","!">>
PwdNoUpper == <<"a","b","c","d","e","f","1","!">>
PwdBadChar == <<"A","b","c","d","e","f","1","!","-">>
StrongPwds == {PwdA, PwdB}
WeakPwds   == {PwdShort, PwdNoUpper, PwdBadChar}

(***************************************************************************)
(* bcrypt: the digest is a function of the salt and of the plaintext, and  *)
(* compare re-hashes the candidate with the salt of the stored digest.     *)
(***************************************************************************)
BcryptHash(plain, salt) == [salt |-> salt, digest |-> plain]
\* a stored string that no bcrypt.hash produced has no salt to re-hash with,
\* and compare answers false
BcryptCompare(data, hash) ==
    hash.salt \in Salts /\ BcryptHash(data, hash.salt) = hash
\* bcrypt.genSalt: a random salt, never the one of the digest it replaces
GenSalt(oldHash) == {salt \in Salts : salt # oldHash.salt}

(***************************************************************************)
(* jsonwebtoken: sign puts iat and exp (seconds) next to the payload and   *)
(* appends an HMAC of the whole; verify recomputes the HMAC first and      *)
(* tests the expiry second.  Two tokens signed for the same payload in the *)
(* same second are the same string.                                        *)
(***************************************************************************)
NoEmail == "none"
Hmac(userId, email, iat, exp) == <<userId, email, iat, exp>>
JwtSign(userId, email, t, ttl) ==
    [userId |-> userId, email |-> email, iat |-> t, exp |-> t + ttl,
     mac |-> Hmac(userId, email, t, t + ttl)]
JwtVerify(token, t) ==
    IF token.mac # Hmac(token.userId, token.email, token.iat, token.exp)
    THEN "JsonWebTokenError"
    ELSE IF t >= token.exp THEN "TokenExpiredError"
    ELSE "ok"

NoToken  == [userId |-> 0, email |-> NoEmail, iat |-> 0, exp |-> 0, mac |-> <<>>]
NoExpiry == -1
Garbage  == [userId |-> 0, email |-> NoEmail, iat |-> 0, exp |-> 0,
             mac |-> <<0>>]
Tamper(token) == [token EXCEPT !.exp = token.exp + ResetTtl]

(***************************************************************************)
(* State.                                                                  *)
(***************************************************************************)
VARIABLES
    users,      \* the User collection: _id -> document
    nextId,     \* the next ObjectId the store hands out
    now,        \* the clock, in seconds
    ticks,      \* number of clock advances so far
    adminEnv,   \* process.env.ADMIN_KEY
    daoHasFindOneAndUpdate, \* which revision of GlobalDAO UserDAO extends
    concurrency, \* how many requests the deployment serves at a time
    inflight,   \* per slot: the handler position and locals of a request
    issued,     \* every token the server has signed
    consumed,   \* tokens with which resetPassword has answered 200
    adminState, \* per account: the last of lock / unlock performed on it
    limiter,    \* the store of loginLimiter for one caller
    tasks,      \* the Task collection: _id -> document
    last        \* the response sent most recently

vars == <<users, nextId, now, ticks, adminEnv, daoHasFindOneAndUpdate,
          concurrency, inflight, issued, consumed, adminState, limiter,
          tasks, last>>

Undefined == "undefined"
AdminKeys == {"k1"}
Headers   == {Undefined, "k1", "bad"}

NoHash == [salt |-> 0, digest |-> <<>>]

\* the password path holding the string a client sent, as it was sent
Plain(p) == [salt |-> 0, digest |-> p]
NoUser ==
    [exists |-> FALSE, email |-> NoEmail, password |-> NoHash,
     isLocked |-> FALSE, resetPasswordToken |-> NoToken,
     resetPasswordExpires |-> NoExpiry]

Idle == [pc |-> "idle"]

NoResponse ==
    [op |-> "none", status |-> 0, message |-> "", case |-> "", id |-> 0,
     wrote |-> FALSE, reuse |-> FALSE, raced |-> FALSE, stale |-> FALSE,
     authorized |-> FALSE, after |-> "none", token |-> NoToken, body |-> {},
     mailFailed |-> FALSE, password |-> <<>>, previous |-> NoHash,
     caller |-> 0, owner |-> 0, due |-> "", list |-> <<>>, disclosed |-> {},
     bearer |-> NoToken, target |-> 0]

\* The response of operation op: res.status(status).json({ message }).
\* case names the branch of the handler that answered.
Response(op, status, message, case) ==
    [NoResponse EXCEPT !.op = op, !.status = status, !.message = message,
                       !.case = case]

\* a due date as a request carries it: absent, a string Date cannot parse,
\* or a time in seconds
NoDate  == [kind |-> "missing", at |-> 0]

BadDate == [kind |-> "invalid", at |-> 0]

Due(t)  == [kind |-> "date", at |-> t]

TaskIds == 1..MaxTasks

\* removed marks an _id whose document was deleted; creator is the caller
\* of the create request that made the document (not a path of the schema)
NoTask ==
    [exists |-> FALSE, removed |-> FALSE, userId |-> 0, creator |-> 0,
     title |-> "", date |-> NoDate, createdAt |-> 0]

NoTasks == [t \in TaskIds |-> NoTask]

\* the limiter's record of a caller: the requests counted in the current
\* window and the time the window ends; failures is the number of login
\* responses of the window that were failures
NoHits == [hits |-> 0, resetTime |-> 0, failures |-> 0]

Init ==
    /\ users = [id \in UserIds |-> NoUser]
    /\ nextId = 1
    /\ now = 0
    /\ ticks = 0
    /\ adminEnv \in AdminKeys \cup {Undefined}
    /\ daoHasFindOneAndUpdate \in BOOLEAN
    /\ concurrency \in Slots
    /\ inflight = [s \in Slots |-> Idle]
    /\ issued = {}
    /\ consumed = {}
    /\ adminState = [id \in UserIds |-> "none"]
    /\ limiter = NoHits
    /\ tasks = NoTasks
    /\ last = NoResponse

(***************************************************************************)
(* Store queries.                                                          *)
(***************************************************************************)
Ids == {id \in UserIds : users[id].exists}

\* Model.findOne({ email }): the ids whose document has that email
IdsByEmail(email) == {id \in Ids : users[id].email = email}

\* the unique index on email: another document already holds the email
DuplicateKey(email, self) == \E id \in Ids \ {self} : users[id].email = email

\* the server signs at most MaxTokens distinct tokens
MaySign(token) == token \in issued \/ Cardinality(issued) < MaxTokens

\* what a client can put where a token is expected
Presentable == issued \cup {Tamper(t) : t \in issued} \cup {Garbage}

\* a new request takes the first free slot
FreeSlot(s) ==
    /\ s <= concurrency
    /\ inflight[s] = Idle
    /\ \A r \in Slots : r < s => inflight[r] # Idle

(***************************************************************************)
(* Messages, written without their diacritics.                             *)
(***************************************************************************)
MsgDuplicateKey       ==
    "Duplicate key error: A record with this unique field already exists."
MsgNotStrong          == "User validation failed: password: Password not strong enough"
MsgInvalidCredentials == "Correo o contrasena invalidos"
MsgLocked             == "Cuenta temporalmente bloqueada"
MsgLoginOk            == "Login successful"
MsgRetryLater         == "Intentalo de nuevo mas tarde"
MsgUnlockError        == "Error al desbloquear usuario"
MsgUserNotFound       == "Usuario no encontrado"
MsgForbidden          == "Forbidden"
MsgAccountLocked      == "Cuenta bloqueada"
MsgAccountUnlocked    == "Cuenta desbloqueada"
MsgCheckMail          == "Revisa tu correo para continuar"
MsgMismatch           == "Las contrasenas no coinciden"
MsgWeak               ==
    "La contrasena debe tener al menos 8 caracteres, mayuscula, minuscula, numero y caracter especial"
MsgBadToken           == "Token invalido o expirado"
MsgPasswordUpdated    == "Contrasena actualizada"
MsgEmailInUse         == "Email already in use"
MsgUpdateFailed       == "No pudimos actualizar tu perfil"
MsgAccessDenied       == "Access denied"
MsgTokenExpired       == "Token has expired"
MsgInvalidToken       == "Invalid token"
MsgMissingToken       == "Access token is missing"
MsgProfileFailed      == "No pudimos obtener tu perfil"
MsgTooMany            == "Demasiados intentos fallidos, intente de nuevo mas tarde"
MsgDocumentNotFound   == "Error deleting document by ID: Document not found"

(***************************************************************************)
(* The end of a response, and the clock.                                   *)
(***************************************************************************)
\* res.json(...) ends the request: the response leaves the server before
\* the next step of any handler runs
Flush ==
    /\ last # NoResponse
    /\ last' = NoResponse
    /\ UNCHANGED <<users, nextId, now, ticks, adminEnv, daoHasFindOneAndUpdate,
                   concurrency, inflight, issued, consumed, adminState, limiter, tasks>>

Flushed == last = NoResponse

TickBy(steps) ==
    /\ Flushed
    /\ ticks < MaxTicks
    /\ \E d \in steps : now' = now + d
    /\ ticks' = ticks + 1
    /\ UNCHANGED <<users, nextId, adminEnv, daoHasFindOneAndUpdate, concurrency,
                   inflight, issued, consumed, adminState, limiter, last, tasks>>

\* the clock in steps that reach the expiry of a reset token
Tick == TickBy(TimeSteps)

(***************************************************************************)
(* POST /users: GlobalController.create -> GlobalDAO.create ->             *)
(* new User(body).save().  Validation runs before the pre-save hook, the   *)
(* hook hashes the password, and the insert is refused by the unique index *)
(* on email.                                                               *)
(***************************************************************************)
\* doc.toObject(), as res.json(doc) serialises it: the names of the paths
\* the document holds
ToObject(doc) ==
    {"_id", "email", "password", "isLocked"}
    \cup (IF doc.resetPasswordToken # NoToken THEN {"resetPasswordToken"} ELSE {})
    \cup (IF doc.resetPasswordExpires # NoExpiry THEN {"resetPasswordExpires"}
          ELSE {})

\* res.status(201).json(item): the document GlobalDAO.create returns
CreatedBody(doc) == ToObject(doc)

\* the reset tokens in a body that serialises these documents whole
TokensIn(docs) == {doc.resetPasswordToken : doc \in docs} \ {NoToken}

RegisterBodies ==
    {[email |-> e, password |-> p] : e \in Emails, p \in {PwdA, PwdShort}}
    \cup {[email |-> e, password |-> PwdA, isLocked |-> TRUE] : e \in Emails}

Has(body, field) == field \in DOMAIN body

\* the document new User(body) builds, with the password hashed on save
NewUser(body, salt) ==
    [exists |-> TRUE,
     email |-> body.email,
     password |-> BcryptHash(body.password, salt),
     isLocked |-> IF Has(body, "isLocked") THEN body.isLocked ELSE FALSE,
     resetPasswordToken |-> NoToken,
     resetPasswordExpires |-> NoExpiry]

Register ==
    \E body \in RegisterBodies :
        /\ Flushed
        /\ nextId <= MaxUsers
        /\ IF ~isValidPassword(body.password)
           THEN /\ last' = Response("register", 400, MsgNotStrong, "invalid")
                /\ UNCHANGED <<users, nextId>>
           ELSE IF DuplicateKey(body.email, 0)
           THEN /\ last' = Response("register", 409, MsgDuplicateKey, "duplicate")
                /\ UNCHANGED <<users, nextId>>
           ELSE /\ \E salt \in GenSalt(NoHash) :
                       users' = [users EXCEPT ![nextId] = NewUser(body, salt)]
                /\ nextId' = nextId + 1
                /\ last' = [Response("register", 201, "", "created")
                                EXCEPT !.id = nextId, !.wrote = TRUE,
                                       !.body = CreatedBody(users'[nextId]),
                                       !.disclosed = TokensIn({users'[nextId]})]
        /\ UNCHANGED <<now, ticks, adminEnv, daoHasFindOneAndUpdate, concurrency, inflight,
                       issued, consumed, adminState, limiter, tasks>>

(***************************************************************************)
(* POST /users/auth/login: UserController.login.                           *)
(***************************************************************************)
\* a findByEmail that names its own failure
FindByEmailErrorNotFound == "Usuario no encontrado"

\* the error UserDAO.findByEmail throws when no document has the email
FindByEmailError == "Correo o contrasena invalidos"

\* the error login throws when validatePassword answers false
LoginMismatchError == "Correo o contrasena invalidos"

\* a login that does not look at isLocked
LoginCaseNoLock(email, password) ==
    IF IdsByEmail(email) = {} THEN "unknown-email"
    ELSE LET user == users[CHOOSE id \in IdsByEmail(email) : TRUE]
         IN IF ~BcryptCompare(password, user.password) THEN "wrong-password"
            ELSE "ok"

\* a login that looks at isLocked before it verifies the password
LoginCaseLockFirst(email, password) ==
    IF IdsByEmail(email) = {} THEN "unknown-email"
    ELSE LET user == users[CHOOSE id \in IdsByEmail(email) : TRUE]
         IN IF user.isLocked THEN "locked"
            ELSE IF ~BcryptCompare(password, user.password) THEN "wrong-password"
            ELSE "ok"

\* the branch login takes, and the account it looked up
LoginCase(email, password) ==
    IF IdsByEmail(email) = {} THEN "unknown-email"
    ELSE LET user == users[CHOOSE id \in IdsByEmail(email) : TRUE]
         IN IF ~BcryptCompare(password, user.password) THEN "wrong-password"
            ELSE IF user.isLocked THEN "locked"
            ELSE "ok"

\* what login answers on that branch; the catch answers 401 with the
\* message of the error
LoginAnswer(case) ==
    IF case = "unknown-email" THEN Response("login", 401, FindByEmailError, case)
    ELSE IF case = "wrong-password"
    THEN Response("login", 401, LoginMismatchError, case)
    ELSE IF case = "locked" THEN Response("login", 423, MsgLocked, case)
    ELSE Response("login", 200, MsgLoginOk, case)

\* jwt.sign({ userId: user._id, email: user.email }, secret,
\*          { expiresIn: "2h" })
SessionToken(id) == JwtSign(id, users[id].email, now, SessionTtl)

\* the handler: the token it signs and the response it sends
LoginRespond(email, password) ==
        LET case == LoginCase(email, password)
            id == IF case = "unknown-email" THEN 0
                  ELSE CHOOSE i \in IdsByEmail(email) : TRUE
        IN /\ IF case = "ok"
              THEN /\ MaySign(SessionToken(id))
                   /\ issued' = issued \cup {SessionToken(id)}
              ELSE UNCHANGED issued
           /\ last' = [LoginAnswer(case)
                          EXCEPT !.id = id,
                                 !.after = IF id = 0 THEN "none" ELSE adminState[id],
                                 !.token = IF case = "ok" THEN SessionToken(id)
                                           ELSE NoToken,
                                 !.wrote = (users' # users)]

\* a login of a caller the limiter has no count for
Login ==
    \E email \in Emails, password \in StrongPwds :
        /\ Flushed
        /\ UNCHANGED <<users, nextId, now, ticks, adminEnv,
                       daoHasFindOneAndUpdate, concurrency, inflight,
                       consumed, adminState, limiter, tasks>>
        /\ LoginRespond(email, password)

(***************************************************************************)
(* loginLimiter in front of login: express-rate-limit counts the request   *)
(* when it arrives, answers 429 when the count exceeds max, and with       *)
(* skipSuccessfulRequests takes the request off the count again when its   *)
(* response has a status below 400.                                        *)
(***************************************************************************)
\* the count of the caller after this request is added
Increment(l) ==
    IF now >= l.resetTime
    THEN [hits |-> 1, resetTime |-> now + WindowSecs, failures |-> 0]
    ELSE [l EXCEPT !.hits = @ + 1]

\* a limiter that lets one request more through
LimitReachedLate(hits) == hits > MaxAttempts + 1

LimitReached(hits) == hits > MaxAttempts

\* a limiter without skipSuccessfulRequests
SkipNothing(status) == FALSE

SkipSuccessful(status) == status < 400

LimitedLogin ==
    \E email \in Emails, password \in StrongPwds :
        LET l == Increment(limiter)
            status == LoginAnswer(LoginCase(email, password)).status
        IN /\ Flushed
           /\ l.hits <= MaxAttempts + MaxOver
           /\ UNCHANGED <<users, nextId, now, ticks, adminEnv,
                          daoHasFindOneAndUpdate, concurrency, inflight,
                          consumed, adminState, tasks>>
           /\ IF LimitReached(l.hits)
              THEN /\ last' = Response("login", 429, MsgTooMany, "limited")
                   /\ limiter' = l
                   /\ UNCHANGED issued
              ELSE /\ LoginRespond(email, password)
                   /\ limiter' = IF SkipSuccessful(status)
                                 THEN [l EXCEPT !.hits = @ - 1]
                                 ELSE [l EXCEPT !.failures = @ + 1]

\* the clock in steps that reach the end of the limiter's window
TickWindow == TickBy({1, WindowSecs})

\* the clock in steps that reach the expiry of a session token
TickSession == TickBy({1, SessionTtl})

\* the clock second by second, past the due date of a task
TickSecond == TickBy({1})

(***************************************************************************)
(* PUT /users/:id/lock and /unlock: adminKey, then UserController.lock or  *)
(* UserController.unlock, which call this.dao.findOneAndUpdate.            *)
(***************************************************************************)
\* adminKey lets the request through when the header equals ADMIN_KEY
adminKey(header) == ~(header # adminEnv)

\* a lock that also withdraws the pending reset of the account
SetLockedAndRevoke(email, flag) ==
    [id \in UserIds |->
        IF id \in IdsByEmail(email)
        THEN [users[id] EXCEPT !.isLocked = flag,
                               !.resetPasswordToken = NoToken,
                               !.resetPasswordExpires = NoExpiry]
        ELSE users[id]]

\* Model.findOneAndUpdate({ email }, { isLocked })
SetLocked(email, flag) ==
    [id \in UserIds |->
        IF id \in IdsByEmail(email) THEN [users[id] EXCEPT !.isLocked = flag]
        ELSE users[id]]

LockRequest(op, flag, errorMessage, okMessage) ==
    \E email \in Emails, header \in Headers :
        LET authorized == header # Undefined /\ header = adminEnv
            Answer(status, message, case) ==
                last' = [Response(op, status, message, case)
                            EXCEPT !.authorized = authorized,
                                   !.wrote = (users' # users),
                                   !.disclosed =
                                       IF status = 200
                                       THEN TokensIn({users'[id] :
                                                id \in IdsByEmail(email)})
                                       ELSE {},
                                   !.id = IF IdsByEmail(email) = {} THEN 0
                                          ELSE CHOOSE id \in IdsByEmail(email) : TRUE]
        IN /\ Flushed
           /\ IF ~adminKey(header)
              THEN /\ UNCHANGED <<users, adminState>>
                   /\ Answer(403, MsgForbidden, "forbidden")
              ELSE /\ adminState' = [id \in UserIds |->
                          IF id \in IdsByEmail(email) THEN op ELSE adminState[id]]
                   /\ IF ~daoHasFindOneAndUpdate
                      THEN \* TypeError: this.dao.findOneAndUpdate is not a function
                           /\ UNCHANGED users
                           /\ Answer(500, errorMessage, "no-method")
                      ELSE IF IdsByEmail(email) = {}
                      THEN /\ UNCHANGED users
                           /\ Answer(404, MsgUserNotFound, "not-found")
                      ELSE /\ users' = SetLocked(email, flag)
                           /\ Answer(200, okMessage, "ok")
           /\ UNCHANGED <<nextId, now, ticks, adminEnv, daoHasFindOneAndUpdate,
                          concurrency, inflight, issued, consumed, limiter, tasks>>

Lock == LockRequest("lock", TRUE, MsgRetryLater, MsgAccountLocked)

Unlock == LockRequest("unlock", FALSE, MsgUnlockError, MsgAccountUnlocked)

(***************************************************************************)
(* verifyToken: the Authorization header is missing, or is "Bearer" with   *)
(* or without a token part.                                                *)
(***************************************************************************)
NoHeader == [present |-> FALSE, token |-> NoToken]

\* "Bearer <token>"; Bearer(NoToken) is a header with no token part
Bearer(token) == [present |-> TRUE, token |-> token]

\* the headers a client can send
AuthHeaders ==
    {NoHeader} \cup {Bearer(t) : t \in issued \cup {NoToken, Garbage}}

verifyToken(header) ==
    IF ~header.present THEN "no-header"
    ELSE IF header.token = NoToken THEN "no-token"
    ELSE JwtVerify(header.token, now)

\* a catch that does not tell an expired token from an invalid one
VerifyMessageMerged(outcome) ==
    IF outcome = "no-header" THEN MsgAccessDenied
    ELSE IF outcome = "no-token" THEN MsgMissingToken
    ELSE IF outcome = "TokenExpiredError" THEN MsgInvalidToken
    ELSE IF outcome = "JsonWebTokenError" THEN MsgInvalidToken
    ELSE MsgRetryLater

VerifyMessage(outcome) ==
    IF outcome = "no-header" THEN MsgAccessDenied
    ELSE IF outcome = "no-token" THEN MsgMissingToken
    ELSE IF outcome = "TokenExpiredError" THEN MsgTokenExpired
    ELSE IF outcome = "JsonWebTokenError" THEN MsgInvalidToken
    ELSE MsgRetryLater

VerifyStatus(outcome) ==
    IF outcome \in {"no-header", "no-token", "TokenExpiredError",
                    "JsonWebTokenError"}
    THEN 401 ELSE 500

\* what verifyToken answers when it does not call next()
VerifyAnswer(op, outcome) ==
    Response(op, VerifyStatus(outcome), VerifyMessage(outcome),
             "unauthenticated")

(***************************************************************************)
(* GET /users/me: verifyToken, then UserController.read, which looks the   *)
(* account up by the email claim of the token.                             *)
(***************************************************************************)
\* const { password, resetPasswordToken, resetPasswordExpires, ...userData }
ProfileBody(doc) ==
    ToObject(doc) \ {"password", "resetPasswordToken", "resetPasswordExpires"}

ReadMe ==
    \E header \in AuthHeaders :
        /\ Flushed
        /\ UNCHANGED <<users, nextId, now, ticks, adminEnv,
                       daoHasFindOneAndUpdate, concurrency, inflight, issued,
                       consumed, adminState, limiter, tasks>>
        /\ IF verifyToken(header) # "ok"
           THEN last' = VerifyAnswer("read", verifyToken(header))
           ELSE IF IdsByEmail(header.token.email) = {}
           THEN \* findByEmail throws, the catch answers 500
                last' = Response("read", 500, MsgProfileFailed, "not-found")
           ELSE LET id == CHOOSE i \in IdsByEmail(header.token.email) : TRUE
                IN last' = [Response("read", 200, "", "found")
                               EXCEPT !.id = id,
                                      !.body = ProfileBody(users[id])]

(***************************************************************************)
(* PUT /users/me/:id: verifyToken, the route's check of req.user.userId,   *)
(* then UserController.update: existsByEmail when the email changes, then  *)
(* GlobalDAO.update = findByIdAndUpdate(id, body without password).        *)
(***************************************************************************)
\* dollarSet is the key "$set" of a body { "$set": { ... } }
UpdateBodies ==
    {[isLocked |-> TRUE], [isLocked |-> FALSE], [password |-> PwdB],
     [dollarSet |-> [password |-> PwdB]], [resetPasswordToken |-> Garbage]}
    \cup {[email |-> e] : e \in Emails}

\* const { password, ...otherUpdates } = req.body, applied by
\* findByIdAndUpdate: the fields of otherUpdates are $set, and a "$set" key
\* of otherUpdates is applied as the operator it names
ApplyUpdate(doc, body) ==
    [doc EXCEPT
        !.email = IF Has(body, "email") THEN body.email ELSE @,
        !.isLocked = IF Has(body, "isLocked") THEN body.isLocked ELSE @,
        !.resetPasswordToken =
            IF Has(body, "resetPasswordToken") THEN body.resetPasswordToken
            ELSE @,
        !.password =
            IF Has(body, "dollarSet") /\ Has(body.dollarSet, "password")
            THEN Plain(body.dollarSet.password) ELSE @]

\* runValidators: the validators of the paths the update sets
UpdateIsValid(body) ==
    (Has(body, "dollarSet") /\ Has(body.dollarSet, "password"))
        => isValidPassword(body.dollarSet.password)

\* findByIdAndUpdate and the answer of UserController.update to the
\* request that carried bearer
UpdateWrite(id, body, bearer) ==
    IF id \notin Ids
    THEN /\ last' = [Response("update", 500, MsgUpdateFailed, "not-found")
                         EXCEPT !.bearer = bearer, !.target = id]
         /\ UNCHANGED users
    ELSE IF ~UpdateIsValid(body)
    THEN /\ last' = [Response("update", 500, MsgUpdateFailed, "invalid")
                         EXCEPT !.bearer = bearer, !.target = id]
         /\ UNCHANGED users
    ELSE IF Has(body, "email") /\ DuplicateKey(body.email, id)
    THEN /\ last' = [Response("update", 500, MsgUpdateFailed, "duplicate")
                         EXCEPT !.bearer = bearer, !.target = id]
         /\ UNCHANGED users
    ELSE /\ users' = [users EXCEPT ![id] = ApplyUpdate(users[id], body)]
         /\ last' = [Response("update", 200, "", "ok")
                         EXCEPT !.id = id, !.wrote = (users' # users),
                                !.bearer = bearer, !.target = id,
                                !.disclosed = TokensIn({users'[id]})]

UpdateStart ==
    \E header \in AuthHeaders, id \in UserIds, body \in UpdateBodies :
        LET bearer == header.token
        IN
        /\ Flushed
        /\ IF verifyToken(header) # "ok"
           THEN /\ last' = [VerifyAnswer("update", verifyToken(header))
                               EXCEPT !.bearer = bearer, !.target = id]
                /\ UNCHANGED <<users, inflight>>
           ELSE IF bearer.userId # id
           THEN /\ last' = [Response("update", 403, MsgForbidden, "forbidden")
                               EXCEPT !.bearer = bearer, !.target = id]
                /\ UNCHANGED <<users, inflight>>
           ELSE IF Has(body, "email") /\ body.email # bearer.email
           THEN IF IdsByEmail(body.email) # {}
                THEN /\ last' = [Response("update", 409, MsgEmailInUse, "in-use")
                                    EXCEPT !.bearer = bearer, !.target = id]
                     /\ UNCHANGED <<users, inflight>>
                ELSE \E s \in Slots :
                        /\ FreeSlot(s)
                        /\ inflight' = [inflight EXCEPT ![s] =
                               [pc |-> "update_write", id |-> id, body |-> body,
                                bearer |-> bearer]]
                        /\ UNCHANGED <<users, last>>
           ELSE /\ UpdateWrite(id, body, bearer)
                /\ UNCHANGED inflight
        /\ UNCHANGED <<nextId, now, ticks, adminEnv, daoHasFindOneAndUpdate, concurrency,
                       issued, consumed, adminState, limiter, tasks>>

UpdateFinish ==
    \E s \in Slots :
        /\ Flushed
        /\ inflight[s].pc = "update_write"
        /\ UpdateWrite(inflight[s].id, inflight[s].body, inflight[s].bearer)
        /\ inflight' = [inflight EXCEPT ![s] = Idle]
        /\ UNCHANGED <<nextId, now, ticks, adminEnv, daoHasFindOneAndUpdate, concurrency,
                       issued, consumed, adminState, limiter, tasks>>

(***************************************************************************)
(* DELETE /users/me/:id: verifyToken, the route's check of                 *)
(* req.user.userId, then GlobalController.delete = findByIdAndDelete.      *)
(***************************************************************************)
DeleteMe ==
    \E header \in AuthHeaders, id \in UserIds :
        LET bearer == header.token
            Answer(status, message, case) ==
                last' = [Response("delete", status, message, case)
                           EXCEPT !.bearer = bearer, !.target = id,
                                  !.wrote = (users' # users),
                                  !.disclosed = IF status = 200
                                                THEN TokensIn({users[id]})
                                                ELSE {}]
        IN
        /\ Flushed
        /\ UNCHANGED <<nextId, now, ticks, adminEnv, daoHasFindOneAndUpdate,
                       concurrency, inflight, issued, consumed, adminState,
                       limiter, tasks>>
        /\ IF verifyToken(header) # "ok"
           THEN /\ UNCHANGED users
                /\ last' = [VerifyAnswer("delete", verifyToken(header))
                               EXCEPT !.bearer = bearer, !.target = id]
           ELSE IF bearer.userId # id
           THEN /\ UNCHANGED users
                /\ Answer(403, MsgForbidden, "forbidden")
           ELSE IF id \notin Ids
           THEN /\ UNCHANGED users
                /\ Answer(404, MsgDocumentNotFound, "not-found")
           ELSE /\ users' = [users EXCEPT ![id] = NoUser]
                /\ Answer(200, "", "ok")

(***************************************************************************)
(* GET /users: GlobalController.getAll = Model.find(req.query), with no    *)
(* middleware in front.                                                    *)
(***************************************************************************)
GetAll ==
    /\ Flushed
    /\ UNCHANGED <<users, nextId, now, ticks, adminEnv, daoHasFindOneAndUpdate,
                   concurrency, inflight, issued, consumed, adminState,
                   limiter, tasks>>
    /\ last' = [Response("list", 200, "", "ok")
                   EXCEPT !.body = UNION {ToObject(users[id]) : id \in Ids},
                          !.disclosed = TokensIn({users[id] : id \in Ids})]

(***************************************************************************)
(* POST /users/auth/forgot-password: UserController.forgotPassword.        *)
(* findByEmail, jwt.sign, user.save({validateBeforeSave: false}),          *)
(* sendEmail.                                                              *)
(***************************************************************************)
ForgotStart ==
    \E email \in Emails :
        /\ Flushed
        /\ IF IdsByEmail(email) = {}
           THEN \* findByEmail throws, the catch answers 500
                /\ last' = Response("forgot", 500, MsgRetryLater, "unknown-email")
                /\ UNCHANGED <<inflight, issued>>
           ELSE \E id \in IdsByEmail(email), s \in Slots :
                LET token == JwtSign(id, NoEmail, now, ResetTtl)
                IN /\ FreeSlot(s)
                   /\ MaySign(token)
                   /\ issued' = issued \cup {token}
                   /\ inflight' = [inflight EXCEPT ![s] =
                          [pc |-> "forgot_save", id |-> id, token |-> token,
                           expires |-> now + ResetTtl]]
                   /\ UNCHANGED last
        /\ UNCHANGED <<users, nextId, now, ticks, adminEnv,
                       daoHasFindOneAndUpdate, concurrency, consumed, adminState, limiter, tasks>>

\* a save whose hook hashes the stored hash once more
ForgotDocumentRehashed(doc, token, expires) ==
    [doc EXCEPT !.resetPasswordToken = token,
                !.resetPasswordExpires = expires,
                !.password = BcryptHash(<<"$">>, doc.password.salt)]

\* user.resetPasswordToken = resetToken; user.resetPasswordExpires = ...;
\* the pre-save hook returns at once, password not being modified
ForgotDocument(doc, token, expires) ==
    [doc EXCEPT !.resetPasswordToken = token,
                !.resetPasswordExpires = expires]

\* user.save(): $set of the two modified paths on the document of that _id
ForgotSave ==
    \E s \in Slots :
        /\ Flushed
        /\ inflight[s].pc = "forgot_save"
        /\ LET r == inflight[s]
           IN IF r.id \notin Ids
              THEN \* DocumentNotFoundError, the catch answers 500
                   /\ last' = [Response("forgot", 500, MsgRetryLater, "save-failed")
                                   EXCEPT !.id = r.id]
                   /\ inflight' = [inflight EXCEPT ![s] = Idle]
                   /\ UNCHANGED users
              ELSE /\ users' = [users EXCEPT
                          ![r.id] = ForgotDocument(users[r.id], r.token, r.expires)]
                   /\ inflight' = [inflight EXCEPT ![s] =
                          [pc |-> "forgot_send", id |-> r.id, token |-> r.token,
                           wrote |-> (users' # users)]]
                   /\ UNCHANGED last
        /\ UNCHANGED <<nextId, now, ticks, adminEnv, daoHasFindOneAndUpdate, concurrency,
                       issued, consumed, adminState, limiter, tasks>>

\* a dispatch that is not awaited: the answer does not depend on it
ForgotSendAnswerDetached(delivered) ==
    Response("forgot", 200, MsgCheckMail, "sent")

\* await sendEmail(...) inside the try: an error of the transport reaches
\* the catch
ForgotSendAnswer(delivered) ==
    IF delivered
    THEN Response("forgot", 200, MsgCheckMail, "sent")
    ELSE Response("forgot", 500, MsgRetryLater, "mail-failed")

\* await sendEmail(...): the transport delivers or throws
ForgotSend ==
    \E s \in Slots, delivered \in BOOLEAN :
        /\ Flushed
        /\ inflight[s].pc = "forgot_send"
        /\ LET r == inflight[s]
           IN last' = [ForgotSendAnswer(delivered)
                           EXCEPT !.id = r.id,
                                  !.wrote = r.wrote,
                                  !.mailFailed = ~delivered]
        /\ inflight' = [inflight EXCEPT ![s] = Idle]
        /\ UNCHANGED <<users, nextId, now, ticks, adminEnv,
                       daoHasFindOneAndUpdate, concurrency, issued, consumed, adminState, limiter, tasks>>

(***************************************************************************)
(* POST /users/auth/reset-password/:token: UserController.resetPassword.   *)
(***************************************************************************)
ResetBodies ==
    {[password |-> p, confirmPassword |-> p] : p \in {PwdB} \cup WeakPwds}
    \cup {[password |-> PwdB, confirmPassword |-> PwdA],
          [password |-> PwdShort, confirmPassword |-> PwdB]}

\* a lookup by the _id of the token alone
FindByResetTokenIdOnly(token) ==
    {id \in Ids : id = token.userId}

\* User.findOne({ _id, resetPasswordToken: token,
\*                resetPasswordExpires: { $gt: Date.now() } })
FindByResetToken(token) ==
    {id \in Ids : /\ id = token.userId
                  /\ users[id].resetPasswordToken = token
                  /\ users[id].resetPasswordExpires # NoExpiry
                  /\ users[id].resetPasswordExpires > now}

\* the branch resetPassword takes before it saves
ResetCase(token, body) ==
    IF body.password # body.confirmPassword THEN "mismatch"
    ELSE IF ~StrengthRegexTest(body.password) THEN "weak"
    ELSE IF JwtVerify(token, now) # "ok" THEN JwtVerify(token, now)
    ELSE IF FindByResetToken(token) = {} THEN "no-match"
    ELSE "found"

\* what resetPassword answers when it does not reach the save; an error of
\* jwt.verify is caught by the handler's catch
ResetAnswer(case) ==
    IF case = "mismatch" THEN Response("reset", 400, MsgMismatch, case)
    ELSE IF case = "weak" THEN Response("reset", 400, MsgWeak, case)
    ELSE IF case = "no-match" THEN Response("reset", 400, MsgBadToken, case)
    ELSE Response("reset", 500, MsgRetryLater, case)

\* the presented token is not the one stored on its account, or the stored
\* expiry has passed
Stale(token) ==
    \/ token.userId \notin Ids
    \/ users[token.userId].resetPasswordToken # token
    \/ users[token.userId].resetPasswordExpires <= now

ResetStart ==
    \E token \in Presentable, body \in ResetBodies :
        /\ Flushed
        /\ LET case == ResetCase(token, body)
               reuse == token \in consumed
               stale == IF token.userId \in UserIds THEN Stale(token) ELSE TRUE
           IN IF case # "found"
              THEN /\ UNCHANGED <<users, inflight>>
                   /\ last' = [ResetAnswer(case)
                                  EXCEPT !.reuse = reuse, !.stale = stale,
                                         !.wrote = (users' # users)]
              ELSE \E id \in FindByResetToken(token), s \in Slots :
                      /\ FreeSlot(s)
                      /\ inflight' = [inflight EXCEPT ![s] =
                             [pc |-> "reset_save", id |-> id, token |-> token,
                              password |-> body.password, reuse |-> reuse,
                              stale |-> stale, raced |-> FALSE]]
                      /\ UNCHANGED <<users, last>>
        /\ UNCHANGED <<nextId, now, ticks, adminEnv,
                       daoHasFindOneAndUpdate, concurrency, issued, consumed,
                       adminState, limiter, tasks>>

\* a reset that leaves the token on the account
ResetDocumentKeepsToken(doc, password, salt) ==
    [doc EXCEPT !.password = BcryptHash(password, salt)]

\* user.password = password; user.resetPasswordToken = undefined;
\* user.resetPasswordExpires = undefined; and the pre-save hook's hash
ResetDocument(doc, password, salt) ==
    [doc EXCEPT !.password = BcryptHash(password, salt),
                !.resetPasswordToken = NoToken,
                !.resetPasswordExpires = NoExpiry]

\* user.save(): the pre-save hook hashes the new password, then $set of
\* password and $unset of the reset fields on the document of that _id
ResetSave ==
    \E s \in Slots :
        /\ Flushed
        /\ inflight[s].pc = "reset_save"
        /\ LET r == inflight[s]
           IN IF r.id \notin Ids
              THEN /\ last' = [Response("reset", 500, MsgRetryLater, "save-failed")
                                  EXCEPT !.id = r.id,
                                         !.reuse = r.reuse, !.raced = r.raced,
                                         !.stale = r.stale]
                   /\ inflight' = [inflight EXCEPT ![s] = Idle]
                   /\ UNCHANGED <<users, consumed, adminState>>
              ELSE /\ \E salt \in GenSalt(users[r.id].password) :
                       users' = [users EXCEPT
                          ![r.id] = ResetDocument(users[r.id], r.password, salt)]
                   /\ consumed' = consumed \cup {r.token}
                   /\ last' = [Response("reset", 200, MsgPasswordUpdated, "ok")
                                  EXCEPT !.id = r.id,
                                         !.reuse = r.reuse, !.raced = r.raced,
                                         !.stale = r.stale,
                                         !.wrote = (users' # users),
                                         !.password = r.password,
                                         !.previous = users[r.id].password]
                   /\ inflight' = [t \in Slots |->
                          IF t = s THEN Idle
                          ELSE IF /\ inflight[t].pc = "reset_save"
                                  /\ inflight[t].token = r.token
                               THEN [inflight[t] EXCEPT !.raced = TRUE]
                               ELSE inflight[t]]
        /\ UNCHANGED <<nextId, now, ticks, adminEnv, daoHasFindOneAndUpdate,
                       concurrency, issued, adminState, limiter, tasks>>

(***************************************************************************)
(* The task routes: POST /tasks, GET /tasks and PUT /tasks/:id behind      *)
(* verifyToken, DELETE /tasks/:id without it.                              *)
(***************************************************************************)
MsgTaskCreated      == "Tarea creada exitosamente"
MsgTaskNotSaved     == "No pudimos guardar tu tarea, intentalo de nuevo mas tarde"
MsgTasksNotRead     == "No pudimos obtener tus tareas, intentalo de nuevo mas tarde"
MsgFutureDate       == "La fecha debe ser futura"
MsgTaskUpdated      == "Tarea actualizada"
MsgTaskNotUpdated   == "No pudimos actualizar tu tarea, intentalo de nuevo mas tarde"
MsgTaskNotFound     == "Tarea no encontrada"

LiveTasks == {t \in TaskIds : tasks[t].exists}

\* the next ObjectId of the Task collection; MaxTasks + 1 when none is left
NextTaskId ==
    IF \E t \in TaskIds : ~tasks[t].exists /\ ~tasks[t].removed
    THEN CHOOSE t \in TaskIds :
             /\ ~tasks[t].exists /\ ~tasks[t].removed
             /\ \A u \in TaskIds : u < t => (tasks[u].exists \/ tasks[u].removed)
    ELSE MaxTasks + 1

\* req.body of POST /tasks; a userId in the body is a path the handler
\* does not read
TaskCreateBodies ==
    {[title |-> "t1", date |-> d] : d \in {Due(1), NoDate}}
    \cup {[title |-> "t1", date |-> Due(1), userId |-> u] : u \in UserIds}

\* req.body of PUT /tasks/:id
TaskUpdateBodies ==
    {[title |-> "t2", date |-> d] : d \in {Due(1), NoDate, BadDate}}

\* an owner taken from the request body when it names one
TaskOwnerFromBody(caller, body) ==
    IF Has(body, "userId") THEN body.userId ELSE caller

\* const userId = req.user.userId; this.dao.create({ userId, ... })
TaskOwner(caller, body) == caller

\* the validators of new Task(data).save(): date is required and a Date
TaskIsValid(body) == body.date.kind = "date"

\* TaskController.create
TaskCreate ==
    \E header \in AuthHeaders, body \in TaskCreateBodies :
        /\ Flushed
        /\ UNCHANGED <<users, nextId, now, ticks, adminEnv,
                       daoHasFindOneAndUpdate, concurrency, inflight, issued,
                       consumed, adminState, limiter>>
        /\ IF verifyToken(header) # "ok"
           THEN /\ last' = VerifyAnswer("task-create", verifyToken(header))
                /\ UNCHANGED tasks
           ELSE IF ~TaskIsValid(body)
           THEN /\ last' = [Response("task-create", 500, MsgTaskNotSaved, "invalid")
                               EXCEPT !.caller = header.token.userId]
                /\ UNCHANGED tasks
           ELSE /\ NextTaskId \in TaskIds
                /\ tasks' = [tasks EXCEPT ![NextTaskId] =
                       [exists |-> TRUE, removed |-> FALSE,
                        userId |-> TaskOwner(header.token.userId, body),
                        creator |-> header.token.userId,
                        title |-> body.title, date |-> body.date,
                        createdAt |-> now]]
                /\ last' = [Response("task-create", 201, MsgTaskCreated, "created")
                               EXCEPT !.id = NextTaskId,
                                      !.caller = header.token.userId,
                                      !.wrote = TRUE]

\* the sequences find({ userId }).sort({ createdAt: -1 }) may return:
\* documents with equal createdAt come in either order
SortedByCreatedAt(S) ==
    {list \in [1..Cardinality(S) -> S] :
        /\ \A i, j \in 1..Cardinality(S) : i # j => list[i] # list[j]
        /\ \A i, j \in 1..Cardinality(S) :
               i < j => tasks[list[i]].createdAt >= tasks[list[j]].createdAt}

\* this.dao.model.find({ userId })
TasksOf(userId) == {t \in LiveTasks : tasks[t].userId = userId}

\* TaskController.getAllByUser
TaskList ==
    \E header \in AuthHeaders :
        /\ Flushed
        /\ UNCHANGED <<users, nextId, now, ticks, adminEnv,
                       daoHasFindOneAndUpdate, concurrency, inflight, issued,
                       consumed, adminState, limiter, tasks>>
        /\ IF verifyToken(header) # "ok"
           THEN last' = VerifyAnswer("task-list", verifyToken(header))
           ELSE \E list \in SortedByCreatedAt(TasksOf(header.token.userId)) :
                   last' = [Response("task-list", 200, "", "ok")
                              EXCEPT !.caller = header.token.userId,
                                     !.list = list]

\* TaskDAO.model.findOne({ _id, user_email }) without await: a Query
\* object, which `!task` never finds falsy, whatever the collection holds
RouteFindsTask(id, email) == TRUE

\* dateValue <= new Date(): false when new Date(date) is an Invalid Date,
\* as it is for a missing or unparseable date
DateIsNotFuture(date, t) == date.kind = "date" /\ date.at <= t

\* how the due date of the request stands to the clock
DueKind(date, t) ==
    IF date.kind # "date" THEN date.kind
    ELSE IF date.at > t THEN "future"
    ELSE IF date.at = t THEN "now"
    ELSE "past"

\* router.put("/:id") and TaskController.update.  strips: the Mongoose of
\* the deployment drops the undefined keys of an update, or sets them and
\* fails the required validator
TaskUpdate ==
    \E header \in AuthHeaders, id \in TaskIds, body \in TaskUpdateBodies,
       strips \in BOOLEAN :
        LET Answer(status, message, case) ==
                last' = [Response("task-update", status, message, case)
                           EXCEPT !.id = id,
                                  !.caller = header.token.userId,
                                  !.owner = tasks[id].userId,
                                  !.due = DueKind(body.date, now),
                                  !.wrote = (tasks' # tasks)]
        IN
        /\ Flushed
        /\ UNCHANGED <<users, nextId, now, ticks, adminEnv,
                       daoHasFindOneAndUpdate, concurrency, inflight, issued,
                       consumed, adminState, limiter>>
        /\ IF verifyToken(header) # "ok"
           THEN /\ UNCHANGED tasks
                /\ last' = VerifyAnswer("task-update", verifyToken(header))
           ELSE IF ~RouteFindsTask(id, header.token.email)
           THEN /\ UNCHANGED tasks
                /\ Answer(404, MsgTaskNotFound, "not-found")
           ELSE IF DateIsNotFuture(body.date, now)
           THEN /\ UNCHANGED tasks
                /\ Answer(400, MsgFutureDate, "not-future")
           ELSE IF body.date.kind = "invalid"
           THEN \* CastError of findByIdAndUpdate
                /\ UNCHANGED tasks
                /\ Answer(500, MsgTaskNotUpdated, "cast-error")
           ELSE IF body.date.kind = "missing" /\ ~strips
           THEN /\ UNCHANGED tasks
                /\ Answer(500, MsgTaskNotUpdated, "validation")
           ELSE IF id \notin LiveTasks
           THEN /\ UNCHANGED tasks
                /\ Answer(500, MsgTaskNotUpdated, "no-document")
           ELSE /\ tasks' = [tasks EXCEPT
                       ![id].title = body.title,
                       ![id].date = IF body.date.kind = "missing" THEN @
                                    ELSE body.date]
                /\ Answer(200, MsgTaskUpdated, "ok")

\* router.delete("/:id") -> GlobalController.delete -> findByIdAndDelete
TaskDelete ==
    \E id \in TaskIds :
        /\ Flushed
        /\ UNCHANGED <<users, nextId, now, ticks, adminEnv,
                       daoHasFindOneAndUpdate, concurrency, inflight, issued,
                       consumed, adminState, limiter>>
        /\ IF id \notin LiveTasks
           THEN /\ UNCHANGED tasks
                /\ last' = [Response("task-delete", 404, MsgDocumentNotFound,
                                     "no-document") EXCEPT !.id = id]
           ELSE /\ tasks' = [tasks EXCEPT ![id] = [NoTask EXCEPT !.removed = TRUE]]
                /\ last' = [Response("task-delete", 200, "", "ok")
                               EXCEPT !.id = id, !.owner = tasks[id].userId,
                                      !.wrote = TRUE]

(***************************************************************************)
(* Specifications.                                                         *)
(***************************************************************************)
Next ==
    \/ Flush
    \/ Tick
    \/ Register
    \/ Login
    \/ Lock
    \/ Unlock
    \/ UpdateStart
    \/ UpdateFinish
    \/ ReadMe
    \/ DeleteMe
    \/ GetAll
    \/ LimitedLogin
    \/ ForgotStart
    \/ ForgotSave
    \/ ForgotSend
    \/ ResetStart
    \/ ResetSave
    \/ TaskCreate
    \/ TaskList
    \/ TaskUpdate
    \/ TaskDelete

Spec == Init /\ [][Next]_vars

\* the collection after the registration of one account
OneRegistered ==
    [id \in UserIds |->
        IF id = 1 THEN NewUser([email |-> "a@tudu.co", password |-> PwdA], 1)
        ELSE NoUser]

\* the collection after the registration of two accounts
TwoRegistered ==
    [id \in UserIds |->
        IF id = 1 THEN NewUser([email |-> "a@tudu.co", password |-> PwdA], 1)
        ELSE IF id = 2
        THEN NewUser([email |-> "b@tudu.co", password |-> PwdA], 2)
        ELSE NoUser]

\* the password-reset flow on its own: forgotPassword and resetPassword
\* requests, one at a time, with the clock running
InitReset ==
    /\ users = OneRegistered
    /\ nextId = 2
    /\ now = 0
    /\ ticks = 0
    /\ adminEnv = Undefined
    /\ daoHasFindOneAndUpdate = FALSE
    /\ concurrency = 1
    /\ inflight = [s \in Slots |-> Idle]
    /\ issued = {}
    /\ consumed = {}
    /\ adminState = [id \in UserIds |-> "none"]
    /\ limiter = NoHits
    /\ tasks = NoTasks
    /\ last = NoResponse

NextReset ==
    \/ Flush
    \/ Tick
    \/ ForgotStart
    \/ ForgotSave
    \/ ForgotSend
    \/ ResetStart
    \/ ResetSave

SpecReset == InitReset /\ [][NextReset]_vars

\* two overlapping requests of the password-reset flow, the clock standing
InitRace ==
    /\ users = OneRegistered
    /\ nextId = 2
    /\ now = 0
    /\ ticks = 0
    /\ adminEnv = Undefined
    /\ daoHasFindOneAndUpdate = FALSE
    /\ concurrency = 2
    /\ inflight = [s \in Slots |-> Idle]
    /\ issued = {}
    /\ consumed = {}
    /\ adminState = [id \in UserIds |-> "none"]
    /\ limiter = NoHits
    /\ tasks = NoTasks
    /\ last = NoResponse

NextRace ==
    \/ Flush
    \/ ForgotStart
    \/ ForgotSave
    \/ ForgotSend
    \/ ResetStart
    \/ ResetSave

SpecRace == InitRace /\ [][NextRace]_vars

\* login and the administrative lock, under either configuration of
\* ADMIN_KEY and either revision of GlobalDAO
InitLock ==
    /\ users = OneRegistered
    /\ nextId = 2
    /\ now = 0
    /\ ticks = 0
    /\ adminEnv \in AdminKeys \cup {Undefined}
    /\ daoHasFindOneAndUpdate \in BOOLEAN
    /\ concurrency = 1
    /\ inflight = [s \in Slots |-> Idle]
    /\ issued = {}
    /\ consumed = {}
    /\ adminState = [id \in UserIds |-> "none"]
    /\ limiter = NoHits
    /\ tasks = NoTasks
    /\ last = NoResponse

NextLock ==
    \/ Flush
    \/ Login
    \/ Lock
    \/ Unlock
    \/ UpdateStart
    \/ UpdateFinish

SpecLock == InitLock /\ [][NextLock]_vars

\* every request of the user routes that is not gated by the admin key
InitProfile ==
    /\ users = OneRegistered
    /\ nextId = 2
    /\ now = 0
    /\ ticks = 0
    /\ adminEnv = Undefined
    /\ daoHasFindOneAndUpdate = FALSE
    /\ concurrency = 1
    /\ inflight = [s \in Slots |-> Idle]
    /\ issued = {}
    /\ consumed = {}
    /\ adminState = [id \in UserIds |-> "none"]
    /\ limiter = NoHits
    /\ tasks = NoTasks
    /\ last = NoResponse

NextProfile ==
    \/ Flush
    \/ Register
    \/ Login
    \/ UpdateStart
    \/ UpdateFinish
    \/ ForgotStart
    \/ ForgotSave
    \/ ForgotSend
    \/ ResetStart
    \/ ResetSave

SpecProfile == InitProfile /\ [][NextProfile]_vars

\* the routes behind verifyToken, with login and the clock
InitSession ==
    /\ users = OneRegistered
    /\ nextId = 2
    /\ now = 0
    /\ ticks = 0
    /\ adminEnv = Undefined
    /\ daoHasFindOneAndUpdate = FALSE
    /\ concurrency = 1
    /\ inflight = [s \in Slots |-> Idle]
    /\ issued = {}
    /\ consumed = {}
    /\ adminState = [id \in UserIds |-> "none"]
    /\ limiter = NoHits
    /\ tasks = NoTasks
    /\ last = NoResponse

NextSession ==
    \/ Flush
    \/ TickSession
    \/ Login
    \/ ReadMe
    \/ UpdateStart
    \/ UpdateFinish

SpecSession == InitSession /\ [][NextSession]_vars

\* forgotPassword and resetPassword followed by logins, with the
\* administrative lock, the clock standing
InitRecover ==
    /\ users = OneRegistered
    /\ nextId = 2
    /\ now = 0
    /\ ticks = 0
    /\ adminEnv = "k1"
    /\ daoHasFindOneAndUpdate = TRUE
    /\ concurrency = 1
    /\ inflight = [s \in Slots |-> Idle]
    /\ issued = {}
    /\ consumed = {}
    /\ adminState = [id \in UserIds |-> "none"]
    /\ limiter = NoHits
    /\ tasks = NoTasks
    /\ last = NoResponse

NextRecover ==
    \/ Flush
    \/ ForgotStart
    \/ ForgotSave
    \/ ForgotSend
    \/ ResetStart
    \/ ResetSave
    \/ Login
    \/ Lock
    \/ Unlock

SpecRecover == InitRecover /\ [][NextRecover]_vars

\* forgotPassword requests and logins on two accounts, one at a time
InitForgot ==
    /\ users = TwoRegistered
    /\ nextId = 3
    /\ now = 0
    /\ ticks = 0
    /\ adminEnv = Undefined
    /\ daoHasFindOneAndUpdate = FALSE
    /\ concurrency = 1
    /\ inflight = [s \in Slots |-> Idle]
    /\ issued = {}
    /\ consumed = {}
    /\ adminState = [id \in UserIds |-> "none"]
    /\ limiter = NoHits
    /\ tasks = NoTasks
    /\ last = NoResponse

NextForgot ==
    \/ Flush
    \/ Tick
    \/ ForgotStart
    \/ ForgotSave
    \/ ForgotSend
    \/ Login

SpecForgot == InitForgot /\ [][NextForgot]_vars

\* registrations, logins and profile updates, two requests at a time
InitAccounts ==
    /\ users = OneRegistered
    /\ nextId = 2
    /\ now = 0
    /\ ticks = 0
    /\ adminEnv = Undefined
    /\ daoHasFindOneAndUpdate = FALSE
    /\ concurrency = 2
    /\ inflight = [s \in Slots |-> Idle]
    /\ issued = {}
    /\ consumed = {}
    /\ adminState = [id \in UserIds |-> "none"]
    /\ limiter = NoHits
    /\ tasks = NoTasks
    /\ last = NoResponse

NextAccounts ==
    \/ Flush
    \/ Register
    \/ Login
    \/ UpdateStart
    \/ UpdateFinish

SpecAccounts == InitAccounts /\ [][NextAccounts]_vars

\* the tokens signed by a login of each of the two accounts at time 0
TwoSessions ==
    {JwtSign(1, "a@tudu.co", 0, SessionTtl),
     JwtSign(2, "b@tudu.co", 0, SessionTtl)}

\* the task routes after the logins of two accounts, with the clock
InitTasks ==
    /\ users = TwoRegistered
    /\ nextId = 3
    /\ now = 0
    /\ ticks = 0
    /\ adminEnv = Undefined
    /\ daoHasFindOneAndUpdate = FALSE
    /\ concurrency = 1
    /\ inflight = [s \in Slots |-> Idle]
    /\ issued = TwoSessions
    /\ consumed = {}
    /\ adminState = [id \in UserIds |-> "none"]
    /\ limiter = NoHits
    /\ tasks = NoTasks
    /\ last = NoResponse

NextTasks ==
    \/ Flush
    \/ TickSecond
    \/ TaskCreate
    \/ TaskList
    \/ TaskUpdate
    \/ TaskDelete

SpecTasks == InitTasks /\ [][NextTasks]_vars

\* the routes that read and write user records, with login and
\* forgotPassword, one request at a time
NextAccess ==
    \/ Flush
    \/ Login
    \/ ForgotStart
    \/ ForgotSave
    \/ ForgotSend
    \/ ReadMe
    \/ GetAll
    \/ UpdateStart
    \/ UpdateFinish
    \/ DeleteMe

SpecAccess == InitSession /\ [][NextAccess]_vars

\* the password-reset flow with the progress the code provides: a response
\* that is written leaves the server and the store answers each call it is
\* sent; the handler sets no timer, so nothing makes `await sendEmail`
\* return when the transport does not settle
SpecForgotLive ==
    /\ InitRace
    /\ [][NextRace]_vars
    /\ WF_vars(Flush)
    /\ WF_vars(ForgotSave)
    /\ WF_vars(ResetSave)

\* the logins of one caller through the limiter, with the administrative
\* lock, one request at a time
InitLimit ==
    /\ users = OneRegistered
    /\ nextId = 2
    /\ now = 0
    /\ ticks = 0
    /\ adminEnv = "k1"
    /\ daoHasFindOneAndUpdate = TRUE
    /\ concurrency = 1
    /\ inflight = [s \in Slots |-> Idle]
    /\ issued = {}
    /\ consumed = {}
    /\ adminState = [id \in UserIds |-> "none"]
    /\ limiter = NoHits
    /\ tasks = NoTasks
    /\ last = NoResponse

NextLimit ==
    \/ Flush
    \/ TickWindow
    \/ LimitedLogin
    \/ Lock
    \/ Unlock

SpecLimit == InitLimit /\ [][NextLimit]_vars

(***************************************************************************)
(* Properties of the password-reset flow.                                  *)
(***************************************************************************)

\* C1 (as claimed): once resetPassword has answered 200 with a token, every
\* later resetPassword that presents the same token with matching, strong
\* passwords is answered 400 "Token invalido o expirado" and leaves the
\* store unchanged.
C1_TokenIsSingleUse ==
    (last.op = "reset" /\ last.reuse /\ last.case \notin {"mismatch", "weak"})
        => (last.status = 400 /\ last.message = MsgBadToken /\ ~last.wrote)

\* C1, the part about the password alone: a token that has changed a
\* password once never changes one again.
C1_NoSecondChange ==
    (last.op = "reset" /\ last.reuse) => (last.status # 200 /\ ~last.wrote)

\* C2 (as claimed): of two overlapping resetPassword requests that present
\* the same valid token, at most one is answered 200 and changes the hash.
C2_AtMostOneWinner ==
    ~(last.op = "reset" /\ last.raced /\ (last.status = 200 \/ last.wrote))

\* C3 (as claimed): forgotPassword answers 2xx for an email of no account
\* (and modifies nothing) as it does for an email of an account once the
\* token is persisted and the notification dispatched.
C3_ForgotAlwaysAcknowledges ==
    (last.op = "forgot" /\ last.case \in {"unknown-email", "sent"})
        => /\ last.status \in 200..299
           /\ last.case = "unknown-email" => ~last.wrote

\* C8: a resetPassword whose token is not the one stored on its account, or
\* is presented at or after the stored expiry, never changes the password;
\* when its signature and ttl are valid and the passwords are acceptable it
\* is answered 400 "Token invalido o expirado".
C8_OnlyStoredTokenResets ==
    (last.op = "reset" /\ last.stale)
        => /\ last.status # 200
           /\ ~last.wrote
           /\ last.case \notin {"mismatch", "weak", "JsonWebTokenError",
                                "TokenExpiredError"}
                  => (last.status = 400 /\ last.message = MsgBadToken)

\* C8 witness: a token rotated out by a second forgotPassword, its signature
\* and ttl still valid, has been presented and refused.
C8_Witness ==
    /\ last.op = "reset"
    /\ last.case = "no-match"
    /\ last.stale
    /\ \E t1 \in issued, t2 \in issued :
          /\ t1 # t2
          /\ t1.userId = t2.userId
          /\ JwtVerify(t1, now) = "ok"
          /\ users[t2.userId].resetPasswordToken = t2

\* C9 (as claimed): resetPassword with a token that is expired or fails the
\* signature check is answered 400 and leaves the store unchanged.
C9_BadTokenIs400 ==
    (last.op = "reset" /\ last.case \in {"JsonWebTokenError", "TokenExpiredError"})
        => (last.status = 400 /\ ~last.wrote)

\* C10: whatever token is presented, a resetPassword whose passwords differ
\* or whose password fails the strength policy is answered 400 and neither
\* looks up nor changes an account.
PolicyLower == {"a","b","c","d","e","f","g","h","i","j","k","l","m",
                "n","o","p","q","r","s","t","u","v","w","x","y","z"}
PolicyUpper == {"A","B","C","D","E","F","G","H","I","J","K","L","M",
                "N","O","P","Q","R","S","T","U","V","W","X","Y","Z"}
PolicyDigit == {"0","1","2","3","4","5","6","7","8","9"}
PolicySymbol == {"@","$","!","%","*","?","&","#"}
MeetsPolicy(p) ==
    /\ Len(p) >= 8
    /\ \E i \in 1..Len(p) : p[i] \in PolicyLower
    /\ \E i \in 1..Len(p) : p[i] \in PolicyUpper
    /\ \E i \in 1..Len(p) : p[i] \in PolicyDigit
    /\ \E i \in 1..Len(p) : p[i] \in PolicySymbol

C10_RejectsBeforeLookup ==
    /\ \A token \in Presentable, body \in ResetBodies :
          (body.password # body.confirmPassword \/ ~MeetsPolicy(body.password))
              => /\ ResetCase(token, body) \in {"mismatch", "weak"}
                 /\ ResetAnswer(ResetCase(token, body)).status = 400
    /\ (last.op = "reset" /\ last.case \in {"mismatch", "weak"})
          => (last.status = 400 /\ ~last.wrote)

\* C10 witness: a weak password has been refused while the token presented
\* with it was the one stored on an account
C10_Witness ==
    /\ last.op = "reset"
    /\ last.case = "weak"
    /\ ~last.stale

(***************************************************************************)
(* Properties of login and of the account lock.                            *)
(***************************************************************************)

\* C4: a login with an email of no account and a login with the email of
\* an account and a wrong password are answered with the same status, 401,
\* and the same message.
C4_LoginDoesNotRevealEmail ==
    /\ \A e1 \in Emails, e2 \in Emails, p1 \in StrongPwds, p2 \in StrongPwds :
          (/\ LoginCase(e1, p1) = "unknown-email"
           /\ LoginCase(e2, p2) = "wrong-password")
              => /\ LoginAnswer(LoginCase(e1, p1)).status = 401
                 /\ LoginAnswer(LoginCase(e2, p2)).status = 401
                 /\ LoginAnswer(LoginCase(e1, p1)).message
                        = LoginAnswer(LoginCase(e2, p2)).message
    /\ (last.op = "login" /\ last.case \in {"unknown-email", "wrong-password"})
          => (last.status = 401 /\ last.message = "Correo o contrasena invalidos")

\* C4 witness: a wrong password has been refused on an existing account
\* while some email belongs to no account
C4_Witness ==
    /\ last.op = "login"
    /\ last.case = "wrong-password"
    /\ last.id \in Ids
    /\ \E e \in Emails : IdsByEmail(e) = {}

\* C5 (as claimed): a login with the correct credentials of an account is
\* answered 423 when the last of lock / unlock performed on the account is
\* lock, and 200 when it is unlock.
C5_LockedUntilUnlocked ==
    (last.op = "login" /\ last.case \in {"locked", "ok"})
        => /\ last.after = "lock" => last.status = 423
           /\ last.after = "unlock" => last.status = 200

\* C6 (as claimed): no request other than lock and unlock changes isLocked
\* of an existing account, or creates an account that is locked.
C6_LockFlagOnlyByAdmin ==
    [][\A id \in UserIds :
          users'[id].exists =>
              users'[id].isLocked = (users[id].exists /\ users[id].isLocked)]_vars

\* C7 (as claimed): a lock or unlock request whose x-admin-key header is
\* missing or is not the configured key is answered 403 and changes no
\* account, whatever the configuration.
C7_BadKeyIs403 ==
    (last.op \in {"lock", "unlock"} /\ ~last.authorized)
        => (last.status = 403 /\ ~last.wrote)

(***************************************************************************)
(* Properties of the stored record.                                        *)
(***************************************************************************)

\* C11 (as claimed): in every reachable state the password path of every
\* account holds one bcrypt hash of a password a client set (validatePassword
\* succeeds for it), never the plaintext itself.
C11_PasswordIsHashedOnce ==
    \A id \in Ids :
        /\ users[id].password.salt \in Salts
        /\ \E p \in StrongPwds \cup WeakPwds :
               BcryptCompare(p, users[id].password)

\* C12 (as claimed): in every reachable state resetPasswordToken and
\* resetPasswordExpires of an account are both set or both absent.
C12_TokenAndExpiryTogether ==
    \A id \in Ids :
        (users[id].resetPasswordToken = NoToken)
            <=> (users[id].resetPasswordExpires = NoExpiry)

\* C13 (as claimed): the 201 response of POST /users holds the created
\* record without its password hash.
C13_CreatedWithoutHash ==
    (last.op = "register" /\ last.status = 201) => "password" \notin last.body

(***************************************************************************)
(* Properties of the session.                                              *)
(***************************************************************************)

\* C18: login signs a token exactly when the email is that of an account,
\* the password is the one the stored hash was made from and the account is
\* not locked; the token carries the account's _id and email and expires
\* two hours after it was signed; login writes nothing to the store.
C18_TokenIffCredentialsAndUnlocked ==
    /\ \A email \in Emails, password \in StrongPwds :
          (LoginCase(email, password) = "ok")
              <=> \E id \in UserIds :
                     /\ users[id].exists
                     /\ users[id].email = email
                     /\ users[id].password.salt \in Salts
                     /\ users[id].password.digest = password
                     /\ ~users[id].isLocked
    /\ last.op = "login"
          => /\ (last.token # NoToken) <=> (last.status = 200)
             /\ (last.status = 200) <=> (last.case = "ok")
             /\ ~last.wrote
             /\ last.token # NoToken
                   => /\ users[last.id].exists
                      /\ ~users[last.id].isLocked
                      /\ last.token.userId = last.id
                      /\ last.token.email = users[last.id].email
                      /\ last.token.iat = now
                      /\ last.token.exp = now + 7200
                      /\ last.token \in issued
                      /\ JwtVerify(last.token, now) = "ok"

\* C18 witness: a login has been answered 200 with a token on an account
\* that had been locked and unlocked before
C18_Witness ==
    /\ last.op = "login"
    /\ last.status = 200
    /\ last.token # NoToken
    /\ last.after = "unlock"

\* C14 (as claimed): GET /users/me with a token that verifies answers 200
\* with the profile without password, resetPasswordToken and
\* resetPasswordExpires when an account has the token's email, and 404 when
\* none has.
C14_ProfileOr404 ==
    (last.op = "read" /\ last.case \in {"found", "not-found"})
        => /\ last.case = "found"
                 => /\ last.status = 200
                    /\ last.body \cap {"password", "resetPasswordToken",
                                       "resetPasswordExpires"} = {}
           /\ last.case = "not-found" => last.status = 404

\* C15: no header, a header without a token part, an expired token and a
\* token whose signature is invalid are each answered 401 with messages
\* that differ pairwise, and the handler does not run; a header passes
\* exactly when it carries a token the server signed that has not expired.
C15_FourDistinct401 ==
    LET headers == AuthHeaders \cup {Bearer(Tamper(t)) : t \in issued}
        failures == {"no-header", "no-token", "TokenExpiredError",
                     "JsonWebTokenError"}
    IN /\ \A h \in headers :
             /\ (verifyToken(h) = "ok")
                   <=> /\ h.present
                       /\ h.token \in issued
                       /\ now < h.token.exp
             /\ verifyToken(h) # "ok"
                   => /\ verifyToken(h) \in failures
                      /\ VerifyAnswer("read", verifyToken(h)).status = 401
             /\ (h.present /\ h.token \in issued /\ now >= h.token.exp)
                   => verifyToken(h) = "TokenExpiredError"
             /\ (h.present /\ h.token # NoToken /\ h.token \notin issued)
                   => verifyToken(h) = "JsonWebTokenError"
       /\ \A o1 \in failures, o2 \in failures :
             o1 # o2 => VerifyAnswer("read", o1).message
                            # VerifyAnswer("read", o2).message
       /\ last.case = "unauthenticated"
             => /\ last.status = 401
                /\ ~last.wrote
                /\ last.body = {}
                /\ last.message \in {MsgAccessDenied, MsgMissingToken,
                                     MsgTokenExpired, MsgInvalidToken}

\* C15 witness: a session token has expired and a request carrying it has
\* been answered 401 "Token has expired"
C15_Witness ==
    /\ last.case = "unauthenticated"
    /\ last.message = MsgTokenExpired
    /\ \E t \in issued : t.email # NoEmail /\ now >= t.exp

\* C19: when sendEmail throws during forgotPassword for an existing
\* account, the caller is answered 500 and no 2xx acknowledgment.
C19_MailFailureIs500 ==
    (last.op = "forgot" /\ last.mailFailed)
        => (last.status = 500 /\ last.status \notin 200..299)

\* C19 witness: the token was persisted on the account, the dispatch
\* failed and the request has been answered
C19_Witness ==
    /\ last.op = "forgot"
    /\ last.mailFailed
    /\ last.wrote
    /\ last.id \in Ids
    /\ users[last.id].resetPasswordToken # NoToken

\* C20 (as claimed): when resetPassword has answered 200 for an account
\* that is not locked, a login with the account's email and the new
\* password is answered 200, a login with the previous password is
\* answered 401, and the account has no pending reset.
C20_ResetThenLogin ==
    (last.op = "reset" /\ last.status = 200)
        => LET user == users[last.id]
           IN /\ user.resetPasswordToken = NoToken
              /\ user.resetPasswordExpires = NoExpiry
              /\ ~user.isLocked
                    => /\ LoginAnswer(LoginCase(user.email, last.password)).status
                              = 200
                       /\ \A p \in StrongPwds \cup WeakPwds :
                              BcryptCompare(p, last.previous)
                                  => LoginAnswer(LoginCase(user.email, p)).status
                                         = 401

\* C20 (amended): the same, the login with the previous password being
\* answered 401 when the previous password is not the new one.
C20_ResetThenLoginUnlessSame ==
    (last.op = "reset" /\ last.status = 200)
        => LET user == users[last.id]
           IN /\ user.resetPasswordToken = NoToken
              /\ user.resetPasswordExpires = NoExpiry
              /\ BcryptCompare(last.password, user.password)
              /\ ~user.isLocked
                    => /\ LoginAnswer(LoginCase(user.email, last.password)).status
                              = 200
                       /\ \A p \in (StrongPwds \cup WeakPwds) \ {last.password} :
                              BcryptCompare(p, last.previous)
                                  => LoginAnswer(LoginCase(user.email, p)).status
                                         = 401

\* C20 witness: a reset has replaced a password by a different one on an
\* account that is not locked
C20_Witness ==
    /\ last.op = "reset"
    /\ last.status = 200
    /\ ~users[last.id].isLocked
    /\ \E p \in StrongPwds : p # last.password /\ BcryptCompare(p, last.previous)

\* a step of a forgotPassword request
ForgotStep ==
    \/ last'.op = "forgot"
    \/ \E s \in Slots : /\ inflight'[s] # inflight[s]
                         /\ inflight'[s].pc \in {"forgot_save", "forgot_send"}

\* C21: a step of forgotPassword changes at most resetPasswordToken and
\* resetPasswordExpires of the account it was called for: the password
\* hash stays as it was, every password that logged in before still logs
\* in, and every other account is unchanged.
C21_ForgotOnlyTouchesResetFields ==
    [][ForgotStep
          => \A id \in UserIds :
                /\ users'[id] = [users[id] EXCEPT
                       !.resetPasswordToken = users'[id].resetPasswordToken,
                       !.resetPasswordExpires = users'[id].resetPasswordExpires]
                /\ users'[id].password = users[id].password
                /\ \A p \in StrongPwds :
                       BcryptCompare(p, users[id].password)
                           <=> BcryptCompare(p, users'[id].password)
                /\ users'[id] # users[id]
                       => \E s \in Slots : /\ inflight[s].pc = "forgot_save"
                                            /\ inflight[s].id = id]_vars

\* C21 witness: a login with the password the account registered with is
\* answered 200 after forgotPassword has stored a token on the account,
\* while another account exists
C21_Witness ==
    /\ last.op = "login"
    /\ last.status = 200
    /\ BcryptCompare(PwdA, users[last.id].password)
    /\ users[last.id].resetPasswordToken \in issued
    /\ users[last.id].resetPasswordExpires = users[last.id].resetPasswordToken.exp
    /\ \E id \in Ids : id # last.id

\* a step of a lock or unlock request
LockStep == last'.op \in {"lock", "unlock"}

\* a step of a resetPassword request
ResetStep ==
    \/ last'.op = "reset"
    \/ \E s \in Slots : /\ inflight[s].pc = "idle"
                         /\ inflight'[s].pc = "reset_save"

C23_LockIsCheckedAfterPassword ==
    /\ \A email \in Emails, password \in StrongPwds \cup WeakPwds :
          LET answer == LoginAnswer(LoginCase(email, password))
          IN /\ (answer.status = 423)
                   <=> \E id \in Ids :
                          /\ users[id].email = email
                          /\ users[id].password.salt \in Salts
                          /\ users[id].password.digest = password
                          /\ users[id].isLocked
             /\ (\E id \in Ids :
                    /\ users[id].email = email
                    /\ users[id].isLocked
                    /\ users[id].password.digest # password)
                   => /\ answer.status = 401
                      /\ answer.message = MsgInvalidCredentials
    /\ (last.op = "login" /\ last.status = 423)
          => /\ last.case = "locked"
             /\ users[last.id].isLocked
             /\ last.token = NoToken
    /\ (last.op = "login" /\ last.case = "wrong-password")
          => (last.status = 401 /\ last.message = MsgInvalidCredentials)

\* C23 witness: a login with a wrong password on a locked account has been
\* answered 401
C23_Witness ==
    /\ last.op = "login"
    /\ last.case = "wrong-password"
    /\ last.status = 401
    /\ users[last.id].isLocked

\* C24 (as claimed): no two accounts hold the same email; a registration
\* with an email in use creates nothing, and a profile update to an email
\* another account holds is answered 409 and changes nothing.
C24_EmailIsUniqueAnd409 ==
    /\ \A i \in Ids, j \in Ids : i # j => users[i].email # users[j].email
    /\ (last.op = "register" /\ last.case = "duplicate")
          => (last.status = 409 /\ ~last.wrote)
    /\ (last.op = "update" /\ last.case \in {"in-use", "duplicate"})
          => (last.status = 409 /\ ~last.wrote)

(***************************************************************************)
(* Properties of the task routes.                                          *)
(***************************************************************************)

\* C25 (as claimed): PUT /tasks/:id with a valid token of a user who does
\* not own the task of that id is answered 404 "Tarea no encontrada" and
\* leaves the task as it was.
C25_OnlyOwnerUpdates ==
    (/\ last.op = "task-update"
     /\ last.case # "unauthenticated"
     /\ last.owner # 0
     /\ last.caller # last.owner)
        => (last.status = 404 /\ last.message = MsgTaskNotFound /\ ~last.wrote)

\* C26 (as claimed): a task update is answered 200 only when its due date
\* is later than the clock; with a date that is past, equal to the clock,
\* missing or unparseable it is answered 400 "La fecha debe ser futura"
\* and the task is unchanged.
C26_FutureDateOr400 ==
    (last.op = "task-update" /\ last.case # "unauthenticated")
        => /\ last.status = 200 => last.due = "future"
           /\ last.due # "future"
                 => /\ last.status = 400
                    /\ last.message = MsgFutureDate
                    /\ ~last.wrote

\* C27: the task a create request makes is owned by the user of the
\* caller's token whatever the body holds, no later request changes the
\* owner, and the list getAllByUser answers holds each existing task of
\* the caller once, and no other, by createdAt from the latest on.
C27_TasksAreIsolated ==
    /\ \A t \in LiveTasks : tasks[t].userId = tasks[t].creator
    /\ (last.op = "task-create" /\ last.status = 201)
          => /\ tasks[last.id].exists
             /\ tasks[last.id].userId = last.caller
    /\ (last.op = "task-list" /\ last.status = 200)
          => /\ {last.list[i] : i \in 1..Len(last.list)}
                    = {t \in TaskIds : tasks[t].exists
                                          /\ tasks[t].creator = last.caller}
             /\ \A i, j \in 1..Len(last.list) :
                    /\ i # j => last.list[i] # last.list[j]
                    /\ i < j => tasks[last.list[i]].createdAt
                                    >= tasks[last.list[j]].createdAt

\* C27 witness: a user's list holds their own task while a task exists
\* that another user created and owns
C27_Witness ==
    /\ last.op = "task-list"
    /\ last.status = 200
    /\ Len(last.list) >= 1
    /\ \E t \in LiveTasks : /\ tasks[t].creator # last.caller
                            /\ tasks[t].userId # last.caller

(***************************************************************************)
(* Properties of the access to user records.                               *)
(***************************************************************************)

\* a token login signed; the token forgotPassword signs has no email claim
IsSessionToken(token) == token \in issued /\ token.email # NoEmail

\* C28 (as claimed): a PUT or DELETE /users/me/:id changes or removes a
\* record only when the request carries an unexpired session token whose
\* userId is :id; every other request is answered 401 or 403 and changes
\* nothing.
C28_OnlyOwnSessionWrites ==
    last.op \in {"update", "delete"}
        => LET own == /\ IsSessionToken(last.bearer)
                      /\ JwtVerify(last.bearer, now) = "ok"
                      /\ last.bearer.userId = last.target
           IN ~own => (last.status \in {401, 403} /\ ~last.wrote)

\* C30 (as claimed): no response holds a reset token that is stored on an
\* account and that resetPassword accepts.
C30_NoResponseHoldsResetToken ==
    \A token \in last.disclosed :
        ~(/\ JwtVerify(token, now) = "ok"
          /\ FindByResetToken(token) # {})

\* C29 (as claimed): every forgotPassword request that is being handled
\* is eventually answered, whether or not the mail transport completes.
C29_ForgotIsAnswered ==
    \A s \in Slots :
        (inflight[s].pc \in {"forgot_save", "forgot_send"})
            ~> (inflight[s].pc = "idle")

(***************************************************************************)
(* Properties of the login limiter.                                        *)
(***************************************************************************)

\* C16: once 5 logins of the caller have failed inside the current window,
\* the next login in that window is answered 429 with the fixed message by
\* the limiter, before the handler: no lookup, no token.
C16_SixthAttemptIsRejected ==
    [][(/\ last'.op = "login"
        /\ now < limiter.resetTime
        /\ limiter.failures >= 5)
          => /\ last'.status = 429
             /\ last'.message = MsgTooMany
             /\ last'.case = "limited"
             /\ last'.token = NoToken
             /\ issued' = issued
             /\ users' = users]_vars

\* C16 witness: the sixth login of a window has been answered 429 after
\* exactly five failures
C16_Witness ==
    /\ last.op = "login"
    /\ last.status = 429
    /\ limiter.failures = 5
    /\ limiter.hits = 6

====
